---- MODULE Spec2Model ----
(***************************************************************************)
(* Model of Learning_NEURON.py: a ring of ball-and-stick cells driven by   *)
(* a single NetStim, run for 100 ms and plotted.                           *)
(*                                                                         *)
(* Time is in ms, synaptic weights are in units of 0.01 uS.  Membrane      *)
(* dynamics are abstracted: finitialize puts every cell at rest, a         *)
(* delivered synaptic event of positive weight may (or may not) drive the  *)
(* target soma over the NetCon threshold after a latency in Latencies.     *)
(***************************************************************************)
EXTENDS Integers, Sequences, FiniteSets

\* ---- bounds ----
MaxCells == 5
MaxCoord == 1
MaxCalls == 2

\* ---- program constants ----
NCells == 5
StimNumber == 1
StimStart == 9
StimDelay == 1
StimWeight == 4
RingWeight == 5
RingDelay == 5
TStop == 100

None == -1
\* an object that has not been constructed yet
Null == [born |-> 0]
\* ms from the delivery of a suprathreshold event to the threshold crossing of
\* the target soma; the value depends on the membrane state
Latencies == {1, 2}

VARIABLES
    pc,          \* position in the script
    n_cells,     \* argument of create_n_BallAndStick
    nobj,        \* number of engine objects constructed so far
    sections,    \* engine section list: sequence of [name, owner, parent, born]
    my_cells,    \* sequence of [id, soma, dend, all, born]
    stim,        \* NetStim record, Null before it exists
    syn_,        \* ExpSyn fed by the stimulus
    ncstim,      \* NetCon stim -> syn_
    recorders,   \* Vector.record bindings of continuous variables
    syns,        \* ring synapses
    netcons,     \* ring connections
    spike_times, \* spike-time vectors, <<>> before they exist
    recordOf,    \* sequence: netcon index -> index of recording vector (0 = none)
    i,           \* loop index of the current loop
    t,           \* simulated time
    queue,       \* undelivered events [time, conn]
    stimNext,    \* time of the next NetStim event, or None
    stimLeft,    \* events the NetStim has still to emit
    fireAt,      \* cell id -> time its soma crosses threshold, or None
    emitted,     \* history: times at which the NetStim emitted an event
    delivered,   \* history: [time, conn, cell] of delivered events
    spikes,      \* history: [cell, time] of threshold crossings
    runs,        \* number of continuerun calls started
    plotted,     \* what the plotting step has drawn
    pos,         \* Cell.x, Cell.y, Cell.z of the cell being positioned
    pts,         \* section -> sequence of 3D points [x, y, z, d]
    pos0,        \* position stored by the constructor
    pts0,        \* geometry after construction
    lastArg,     \* argument of the last set_position call
    ncalls       \* number of set_position calls

scriptVars == <<pc, n_cells, nobj, sections, my_cells, stim, syn_, ncstim,
                recorders, syns, netcons, spike_times, recordOf, i>>
engineVars == <<t, queue, stimNext, stimLeft, fireAt, emitted, delivered,
                spikes, runs, plotted>>
scriptVars_but_pc == <<n_cells, nobj, sections, my_cells, stim, syn_, ncstim,
                       recorders, syns, netcons, spike_times, recordOf, i>>
geomVars == <<pos, pts, pos0, pts0, lastArg, ncalls>>
vars == <<scriptVars, engineVars, geomVars>>

\* ---------------------------------------------------------------------
\* Helpers
\* ---------------------------------------------------------------------
Min(a, b) == IF a < b THEN a ELSE b

Range(seq) == {seq[k] : k \in 1..Len(seq)}

RECURSIVE Root(_, _)
Root(secs, s) ==
    IF secs[s].parent = None THEN s ELSE Root(secs, secs[s].parent)

\* Section.wholetree(): every section of the tree that contains s
WholeTree(secs, s) == {u \in 1..Len(secs) : Root(secs, u) = Root(secs, s)}

\* variant: every dend is connected to the first soma of the section list
SetupMorphology_SharedSoma(secs) ==
    secs \o <<[name |-> "soma", parent |-> None],
              [name |-> "dend", parent |-> 1]>>

\* BallAndStick.setup_morphology: two new sections, dend connected to soma
SetupMorphology(secs) ==
    LET somaIx == Len(secs) + 1
    IN  secs \o <<[name |-> "soma", parent |-> None],
                  [name |-> "dend", parent |-> somaIx]>>

\* Cell.__init__ for a BallAndStick with the given id
NewCell(id_, secs, born) ==
    LET secs2 == SetupMorphology(secs)
        soma  == Len(secs) + 1
        dend  == Len(secs) + 2
    IN  [id |-> id_, soma |-> soma, dend |-> dend,
         all |-> WholeTree(secs2, soma), born |-> born]

\* variant: my_cells[1:] + [my_cells[-1]]
Targets_LastTwice(cells) == Tail(cells) \o <<cells[Len(cells)]>>

\* my_cells[1:] + [my_cells[0]]
Targets(cells) == Tail(cells) \o <<cells[1]>>

\* zip(a, b) stops at the shorter list
ZipLen(a, b) == Min(Len(a), Len(b))

\* n.ExpSyn(cell.dend(0.5))
NewExpSyn(cell, born) ==
    [cell |-> cell.id, sec |-> cell.dend, loc |-> 5, born |-> born]

\* n.NetCon(stim, syn_): engine defaults weight 0, delay 1
NewStimNetCon(born) ==
    [srcKind |-> "NetStim", srcCell |-> None, srcSec |-> None,
     tgt |-> [list |-> "syn_", ix |-> 0],
     weight |-> 0, delay |-> 1, born |-> born]

\* variant: n.NetCon(None, syn), a connection without a source
NewRingNetCon_NoSource(source, synIx, born) ==
    [srcKind |-> "none", srcCell |-> None, srcSec |-> None,
     tgt |-> [list |-> "syns", ix |-> synIx],
     weight |-> 0, delay |-> 1, born |-> born]

\* n.NetCon(source.soma(0.5)._ref_v, syn, sec=source.soma)
NewRingNetCon(source, synIx, born) ==
    [srcKind |-> "soma_v", srcCell |-> source.id, srcSec |-> source.soma,
     tgt |-> [list |-> "syns", ix |-> synIx],
     weight |-> 0, delay |-> 1, born |-> born]

\* the synapse a connection delivers to
SynOf(nc) == IF nc.tgt.list = "syn_" THEN syn_ ELSE syns[nc.tgt.ix]

\* ---------------------------------------------------------------------
\* Initial state
\* ---------------------------------------------------------------------
BaseGeometry ==
    [soma |-> <<[x |-> 0, y |-> 0, z |-> 0, d |-> 12],
                [x |-> 12, y |-> 0, z |-> 0, d |-> 13]>>,
     dend |-> <<[x |-> 12, y |-> 0, z |-> 0, d |-> 1],
                [x |-> 112, y |-> 3, z |-> 0, d |-> 2],
                [x |-> 212, y |-> 0, z |-> 7, d |-> 1]>>]

ScriptInit ==
    /\ pc = "create_cells"
    /\ nobj = 0
    /\ sections = <<>>
    /\ my_cells = <<>>
    /\ stim = Null
    /\ syn_ = Null
    /\ ncstim = Null
    /\ recorders = {}
    /\ syns = <<>>
    /\ netcons = <<>>
    /\ spike_times = <<>>
    /\ recordOf = <<>>
    /\ i = 0

EngineInit ==
    /\ t = 0
    /\ queue = {}
    /\ stimNext = None
    /\ stimLeft = 0
    /\ fireAt = <<>>
    /\ emitted = {}
    /\ delivered = {}
    /\ spikes = {}
    /\ runs = 0
    /\ plotted = <<>>

GeomInit ==
    /\ pos = [x |-> 0, y |-> 0, z |-> 0]
    /\ pts = BaseGeometry
    /\ pos0 = pos
    /\ pts0 = pts
    /\ lastArg = pos
    /\ ncalls = 0

Init ==
    /\ n_cells \in 1..MaxCells
    /\ ScriptInit
    /\ EngineInit
    /\ GeomInit

\* ---------------------------------------------------------------------
\* Setup phase of the script
\* ---------------------------------------------------------------------
\* one iteration of the loop of create_n_BallAndStick
CreateCell ==
    /\ pc = "create_cells"
    /\ i < n_cells
    /\ my_cells' = Append(my_cells, NewCell(i, sections, nobj + 3))
    /\ sections' = SetupMorphology(sections)
    /\ nobj' = nobj + 3
    /\ i' = i + 1
    /\ pc' = IF i + 1 = n_cells THEN "stim" ELSE "create_cells"
    /\ UNCHANGED <<n_cells, stim, syn_, ncstim, recorders, syns, netcons,
                   spike_times, recordOf>>
    /\ UNCHANGED <<engineVars, geomVars>>

\* stim = n.NetStim(); engine defaults
CreateStim ==
    /\ pc = "stim"
    /\ stim' = [number |-> 10, start |-> 50, interval |-> 10, born |-> nobj + 1]
    /\ nobj' = nobj + 1
    /\ pc' = "syn_"
    /\ UNCHANGED <<n_cells, sections, my_cells, syn_, ncstim, recorders, syns,
                   netcons, spike_times, recordOf, i>>
    /\ UNCHANGED <<engineVars, geomVars>>

\* syn_ = n.ExpSyn(my_cells[0].dend(0.5))
CreateSyn ==
    /\ pc = "syn_"
    /\ syn_' = NewExpSyn(my_cells[1], nobj + 1)
    /\ nobj' = nobj + 1
    /\ pc' = "stim_params"
    /\ UNCHANGED <<n_cells, sections, my_cells, stim, ncstim, recorders, syns,
                   netcons, spike_times, recordOf, i>>
    /\ UNCHANGED <<engineVars, geomVars>>

\* variant: the NetStim keeps the engine defaults
SetStim_KeepDefaults ==
    /\ pc = "stim_params"
    /\ pc' = "ncstim"
    /\ UNCHANGED <<n_cells, nobj, sections, my_cells, stim, syn_, ncstim,
                   recorders, syns, netcons, spike_times, recordOf, i>>
    /\ UNCHANGED <<engineVars, geomVars>>

\* stim.number = 1; stim.start = 9 * ms
SetStim ==
    /\ pc = "stim_params"
    /\ stim' = [stim EXCEPT !.number = StimNumber, !.start = StimStart]
    /\ pc' = "ncstim"
    /\ UNCHANGED <<n_cells, nobj, sections, my_cells, syn_, ncstim, recorders,
                   syns, netcons, spike_times, recordOf, i>>
    /\ UNCHANGED <<engineVars, geomVars>>

\* ncstim = n.NetCon(stim, syn_)
CreateNcstim ==
    /\ pc = "ncstim"
    /\ ncstim' = NewStimNetCon(nobj + 1)
    /\ nobj' = nobj + 1
    /\ pc' = "ncstim_params"
    /\ UNCHANGED <<n_cells, sections, my_cells, stim, syn_, recorders, syns,
                   netcons, spike_times, recordOf, i>>
    /\ UNCHANGED <<engineVars, geomVars>>

\* variant: only the delay is assigned, the weight keeps the default
SetNcstim_DelayOnly ==
    /\ pc = "ncstim_params"
    /\ ncstim' = [ncstim EXCEPT !.delay = StimDelay]
    /\ pc' = "recording"
    /\ UNCHANGED <<n_cells, nobj, sections, my_cells, stim, syn_, recorders,
                   syns, netcons, spike_times, recordOf, i>>
    /\ UNCHANGED <<engineVars, geomVars>>

\* ncstim.delay = 1 * ms; ncstim.weight[0] = 0.04
SetNcstim ==
    /\ pc = "ncstim_params"
    /\ ncstim' = [ncstim EXCEPT !.delay = StimDelay, !.weight = StimWeight]
    /\ pc' = "recording"
    /\ UNCHANGED <<n_cells, nobj, sections, my_cells, stim, syn_, recorders,
                   syns, netcons, spike_times, recordOf, i>>
    /\ UNCHANGED <<engineVars, geomVars>>

\* v_vec, t_vec, d_vec, syn_i: Vector().record(...) on cell 0 and syn_
SetupRecording ==
    /\ pc = "recording"
    /\ LET recording_cell == my_cells[1]
       IN  recorders' =
             {[vec |-> "v_vec", ref |-> "v", sec |-> recording_cell.soma],
              [vec |-> "t_vec", ref |-> "t", sec |-> None],
              [vec |-> "d_vec", ref |-> "v", sec |-> recording_cell.dend],
              [vec |-> "syn_i", ref |-> "i", sec |-> syn_.sec]}
    /\ nobj' = nobj + 4
    /\ i' = 0
    /\ pc' = "wire"
    /\ UNCHANGED <<n_cells, sections, my_cells, stim, syn_, ncstim, syns,
                   netcons, spike_times, recordOf>>
    /\ UNCHANGED <<engineVars, geomVars>>

\* one iteration of: for source, target in zip(my_cells, my_cells[1:]+[my_cells[0]])
Wire ==
    /\ pc = "wire"
    /\ i < ZipLen(my_cells, Targets(my_cells))
    /\ LET source == my_cells[i + 1]
           target == Targets(my_cells)[i + 1]
           syn    == NewExpSyn(target, nobj + 1)
           netcon == NewRingNetCon(source, Len(syns) + 1, nobj + 2)
       IN  /\ syns' = Append(syns, syn)
           /\ netcons' = Append(netcons,
                  [netcon EXCEPT !.weight = RingWeight, !.delay = RingDelay])
    /\ nobj' = nobj + 2
    /\ i' = i + 1
    /\ pc' = IF i + 1 = ZipLen(my_cells, Targets(my_cells))
             THEN "spike_vectors" ELSE "wire"
    /\ UNCHANGED <<n_cells, sections, my_cells, stim, syn_, ncstim, recorders,
                   spike_times, recordOf>>
    /\ UNCHANGED <<engineVars, geomVars>>

\* spike_times = [n.Vector() for nc in netcons]
CreateSpikeVectors ==
    /\ pc = "spike_vectors"
    /\ spike_times' = [k \in 1..Len(netcons) |-> <<>>]
    /\ recordOf' = [k \in 1..Len(netcons) |-> 0]
    /\ nobj' = nobj + Len(netcons)
    /\ i' = 0
    /\ pc' = "record"
    /\ UNCHANGED <<n_cells, sections, my_cells, stim, syn_, ncstim, recorders,
                   syns, netcons>>
    /\ UNCHANGED <<engineVars, geomVars>>

\* variant: zip(netcons, reversed(spike_times))
RecordTarget_Reversed(k) == Len(netcons) + 1 - k

\* zip(netcons, spike_times)[k]: the vector recorded by netcons[k]
RecordTarget(k) == k

\* one iteration of: for nc, spike_t_vec in zip(netcons, spike_times): nc.record(...)
Record ==
    /\ pc = "record"
    /\ i < ZipLen(netcons, spike_times)
    /\ recordOf' = [recordOf EXCEPT ![i + 1] = RecordTarget(i + 1)]
    /\ i' = i + 1
    /\ pc' = IF i + 1 = ZipLen(netcons, spike_times) THEN "finitialize" ELSE "record"
    /\ UNCHANGED <<n_cells, nobj, sections, my_cells, stim, syn_, ncstim,
                   recorders, syns, netcons, spike_times>>
    /\ UNCHANGED <<engineVars, geomVars>>

\* ---------------------------------------------------------------------
\* The run: n.finitialize(-65 mV); n.continuerun(100 ms)
\* ---------------------------------------------------------------------
\* connection 0 is ncstim, connection k >= 1 is netcons[k]
ConnOf(k) == IF k = 0 THEN ncstim ELSE netcons[k]

\* index in my_cells of the cell with the given id
CellIx(id_) == CHOOSE c \in 1..Len(my_cells) : my_cells[c].id = id_

\* variant: the delay is ignored
DeliveryTime_NoDelay(nc, now) == now

\* a NetCon delivers its event delay ms after the source fired
DeliveryTime(nc, now) == now + nc.delay

\* the ring connections whose source is the soma of my_cells[c]
OutConns(c) ==
    {k \in 1..Len(netcons) :
        netcons[k].srcKind = "soma_v" /\ netcons[k].srcSec = my_cells[c].soma}

\* NetCon.record: the spike time goes to the vectors bound to the connections
RecordSpike(vecs, conns, now) ==
    [v \in 1..Len(vecs) |->
        IF \E k \in conns : recordOf[k] = v THEN Append(vecs[v], now) ELSE vecs[v]]

PendingTimes ==
    {ev.time : ev \in queue}
      \cup {fireAt[c] : c \in {d \in 1..Len(fireAt) : fireAt[d] # None}}
      \cup (IF stimNext = None THEN {} ELSE {stimNext})

Due == t \in PendingTimes

\* variant: the integrator returns without integrating
RunFinished_AtOnce == t >= 0

\* variant: the integrator also waits for the event queue to drain
RunFinished_Quiescent == t >= TStop /\ queue = {}

\* the integrator stops once simulated time has reached tstop
RunFinished == t >= TStop

\* n.finitialize(-65 * mV): t = 0, cells at rest, event queue and vectors cleared,
\* the NetStim schedules its first event at start
Finitialize ==
    /\ pc = "finitialize"
    /\ t' = 0
    /\ queue' = {}
    /\ stimLeft' = stim.number
    /\ stimNext' = IF stim.number > 0 THEN stim.start ELSE None
    /\ fireAt' = [c \in 1..Len(my_cells) |-> None]
    /\ spike_times' = [k \in 1..Len(spike_times) |-> <<>>]
    /\ pc' = "continuerun"
    /\ UNCHANGED <<n_cells, nobj, sections, my_cells, stim, syn_, ncstim,
                   recorders, syns, netcons, recordOf, i>>
    /\ UNCHANGED <<emitted, delivered, spikes, runs, plotted>>
    /\ UNCHANGED geomVars

\* the call n.continuerun(100 * ms)
ContinueRun ==
    /\ pc = "continuerun"
    /\ runs' = runs + 1
    /\ pc' = "running"
    /\ UNCHANGED scriptVars_but_pc
    /\ UNCHANGED <<t, queue, stimNext, stimLeft, fireAt, emitted, delivered,
                   spikes, plotted>>
    /\ UNCHANGED geomVars

\* the NetStim emits an event; every NetCon it feeds gets a delivery scheduled
StimFire ==
    /\ pc = "running"
    /\ stimNext = t
    /\ stimLeft > 0
    /\ emitted' = emitted \cup {t}
    /\ queue' = queue \cup {[time |-> DeliveryTime(ncstim, t), conn |-> 0]}
    /\ stimLeft' = stimLeft - 1
    /\ stimNext' = IF stimLeft - 1 > 0 THEN t + stim.interval ELSE None
    /\ UNCHANGED scriptVars
    /\ UNCHANGED <<t, fireAt, delivered, spikes, runs, plotted>>
    /\ UNCHANGED geomVars

\* an event reaches its synapse; the target soma may be driven over threshold
Deliver ==
    /\ pc = "running"
    /\ \E ev \in queue :
         /\ ev.time = t
         /\ LET nc == ConnOf(ev.conn)
                c  == CellIx(SynOf(nc).cell)
            IN  /\ queue' = queue \ {ev}
                /\ delivered' = delivered \cup
                      {[time |-> t, conn |-> ev.conn, cell |-> SynOf(nc).cell]}
                /\ \/ UNCHANGED fireAt
                   \/ /\ nc.weight > 0
                      /\ fireAt[c] = None
                      /\ \E lat \in Latencies :
                            fireAt' = [fireAt EXCEPT ![c] = t + lat]
    /\ UNCHANGED scriptVars
    /\ UNCHANGED <<t, stimNext, stimLeft, emitted, spikes, runs, plotted>>
    /\ UNCHANGED geomVars

\* a soma crosses threshold: its NetCons record the time and schedule delivery
Spike ==
    /\ pc = "running"
    /\ \E c \in 1..Len(fireAt) :
         /\ fireAt[c] = t
         /\ fireAt' = [fireAt EXCEPT ![c] = None]
         /\ spikes' = spikes \cup {[cell |-> my_cells[c].id, time |-> t]}
         /\ queue' = queue \cup
               {[time |-> DeliveryTime(netcons[k], t), conn |-> k] : k \in OutConns(c)}
         /\ spike_times' = RecordSpike(spike_times, OutConns(c), t)
    /\ UNCHANGED <<pc, n_cells, nobj, sections, my_cells, stim, syn_, ncstim,
                   recorders, syns, netcons, recordOf, i>>
    /\ UNCHANGED <<t, stimNext, stimLeft, emitted, delivered, runs, plotted>>
    /\ UNCHANGED geomVars

\* the integrator advances to the next event, at most to tstop
Advance ==
    /\ pc = "running"
    /\ ~RunFinished
    /\ ~Due
    /\ t' = IF PendingTimes = {} THEN TStop
            ELSE Min(TStop, CHOOSE m \in PendingTimes : \A o \in PendingTimes : m <= o)
    /\ UNCHANGED scriptVars
    /\ UNCHANGED <<queue, stimNext, stimLeft, fireAt, emitted, delivered,
                   spikes, runs, plotted>>
    /\ UNCHANGED geomVars

\* continuerun returns
EndRun ==
    /\ pc = "running"
    /\ RunFinished
    /\ pc' = "plot"
    /\ UNCHANGED scriptVars_but_pc
    /\ UNCHANGED engineVars
    /\ UNCHANGED geomVars

\* plt.figure(); plt.vlines(spike_t_vec.as_numpy(), i + 0.5, i + 1.5); plt.show()
Plot ==
    /\ pc = "plot"
    /\ plotted' = [k \in 1..Len(spike_times) |->
                      [times |-> spike_times[k], row |-> k]]
    /\ pc' = "done"
    /\ UNCHANGED scriptVars_but_pc
    /\ UNCHANGED <<t, queue, stimNext, stimLeft, fireAt, emitted, delivered,
                   spikes, runs>>
    /\ UNCHANGED geomVars

Next ==
    \/ CreateCell
    \/ CreateStim
    \/ CreateSyn
    \/ SetStim
    \/ CreateNcstim
    \/ SetNcstim
    \/ SetupRecording
    \/ Wire
    \/ CreateSpikeVectors
    \/ Record
    \/ Finitialize
    \/ ContinueRun
    \/ StimFire
    \/ Deliver
    \/ Spike
    \/ Advance
    \/ EndRun
    \/ Plot

Spec == Init /\ [][Next]_vars

\* the script as written: create_n_BallAndStick(5, 50)
ScriptInit5 ==
    /\ n_cells = NCells
    /\ ScriptInit
    /\ EngineInit
    /\ GeomInit

\* the interpreter and the integrator always take their next step
FairSpec == ScriptInit5 /\ [][Next]_vars /\ WF_vars(Next)

\* ---------------------------------------------------------------------
\* Cell.set_position, applied to one constructed cell
\* ---------------------------------------------------------------------
Coord == 0..MaxCoord

\* sec.pt3dchange(i, x, y, z, diam): the new value of point i
pt3dchange(x, y, z, diam) == [x |-> x, y |-> y, z |-> z, d |-> diam]

\* variant: self.x, self.y, self.z are assigned before the loop
set_position_StoreFirst(c, x, y, z) ==
    [pos |-> [x |-> x, y |-> y, z |-> z],
     pts |-> [sec \in DOMAIN c.pts |->
                [k \in 1..Len(c.pts[sec]) |->
                    pt3dchange(x - x + c.pts[sec][k].x,
                               y - y + c.pts[sec][k].y,
                               z - z + c.pts[sec][k].z,
                               c.pts[sec][k].d)]]]

\* Cell.set_position(x, y, z) on a cell c = [pos, pts]
set_position(c, x, y, z) ==
    [pos |-> [x |-> x, y |-> y, z |-> z],
     pts |-> [sec \in DOMAIN c.pts |->
                [k \in 1..Len(c.pts[sec]) |->
                    pt3dchange(x - c.pos.x + c.pts[sec][k].x,
                               y - c.pos.y + c.pts[sec][k].y,
                               z - c.pos.z + c.pts[sec][k].z,
                               c.pts[sec][k].d)]]]

ThisCell == [pos |-> pos, pts |-> pts]

\* a cell constructed with any stored position; its geometry is where
\* define_shape put it
PosInit ==
    /\ n_cells = 1
    /\ ScriptInit
    /\ EngineInit
    /\ pos \in [x : Coord, y : Coord, z : Coord]
    /\ pts = BaseGeometry
    /\ pos0 = pos
    /\ pts0 = pts
    /\ lastArg = pos
    /\ ncalls = 0

SetPosition ==
    /\ ncalls < MaxCalls
    /\ \E x \in Coord, y \in Coord, z \in Coord :
         LET c == set_position(ThisCell, x, y, z)
         IN  /\ pos' = c.pos
             /\ pts' = c.pts
             /\ lastArg' = [x |-> x, y |-> y, z |-> z]
    /\ ncalls' = ncalls + 1
    /\ UNCHANGED <<pos0, pts0>>
    /\ UNCHANGED <<scriptVars, engineVars>>

PosNext == SetPosition

PosSpec == PosInit /\ [][PosNext]_vars

\* ---------------------------------------------------------------------
\* Properties
\* ---------------------------------------------------------------------
AllConns == (IF ncstim = Null THEN {} ELSE {ncstim}) \cup Range(netcons)

\* cells that own section s and were constructed before stamp b
OwnersBefore(s, b) ==
    {c \in 1..Len(my_cells) : s \in my_cells[c].all /\ my_cells[c].born < b}

SourceCells(nc) == IF nc.srcSec = None THEN {} ELSE OwnersBefore(nc.srcSec, nc.born)
TargetCells(nc) == OwnersBefore(SynOf(nc).sec, nc.born)

SetupDone == pc \in {"finitialize", "continuerun", "running", "plot", "done"}
RingDone == pc \in {"spike_vectors", "record"} \/ SetupDone
RunOver == pc \in {"plot", "done"}

\* C1 as stated: every connection, ncstim included, references exactly one
\* source cell and exactly one target cell, both constructed before it.
C1_AsStated ==
    \A nc \in AllConns :
        /\ Cardinality(SourceCells(nc)) = 1
        /\ Cardinality(TargetCells(nc)) = 1

\* C1 amended: every ring connection references exactly one source cell and
\* exactly one target cell, both constructed before it; ncstim references
\* exactly one target cell constructed before it, and its source is the
\* NetStim (constructed before it), which is not a cell.
C1_Connections ==
    /\ \A k \in 1..Len(netcons) :
          /\ Cardinality(SourceCells(netcons[k])) = 1
          /\ Cardinality(TargetCells(netcons[k])) = 1
    /\ ncstim # Null =>
          /\ ncstim.srcKind = "NetStim"
          /\ SourceCells(ncstim) = {}
          /\ stim # Null /\ stim.born < ncstim.born
          /\ Cardinality(TargetCells(ncstim)) = 1

C1_Witness ==
    /\ pc = "done"
    /\ ncstim # Null
    /\ Len(netcons) = NCells
    /\ Len(my_cells) = NCells

\* the cell (index in my_cells) a ring connection starts from / ends at
SrcIx(k) == CHOOSE c \in 1..Len(my_cells) : my_cells[c].soma = netcons[k].srcSec
TgtIx(k) == CHOOSE c \in 1..Len(my_cells) : my_cells[c].dend = SynOf(netcons[k]).sec

\* the ring connections as edges <<source cell, target cell>>
Edges == {<<SrcIx(k), TgtIx(k)>> : k \in 1..Len(netcons)}

\* the cells reached from the cells in from by exactly steps edges of es
RECURSIVE After(_, _, _)
After(es, from, steps) ==
    IF steps = 0 THEN from
    ELSE After(es, {e[2] : e \in {f \in es : f[1] \in from}}, steps - 1)

\* following es from c returns to c after exactly n steps and not before
CycleOfLength(es, c, n) ==
    /\ After(es, {c}, n) = {c}
    /\ \A j \in 1..(n - 1) : c \notin After(es, {c}, j)

\* C2: after the wiring loop, for N >= 2 cells there are exactly N ring
\* connections, the k-th goes from the soma of cell k to a synapse at
\* dend(0.5) of cell (k+1) mod N, every cell is source of exactly one and
\* target of exactly one, none is a self-connection, and following the
\* connections from any cell visits all N cells before returning to it.
\* The cycle structure is evaluated on the states between the wiring loop
\* and the run; from then on cells, synapses and connections are unchanged.
C2_Ring ==
    /\ []((RingDone /\ n_cells >= 2) =>
             /\ Len(netcons) = n_cells
             /\ Len(syns) = n_cells
             /\ \A k \in 1..Len(netcons) :
                   /\ netcons[k].srcKind = "soma_v"
                   /\ netcons[k].srcSec = my_cells[k].soma
                   /\ my_cells[k].id = k - 1
                   /\ netcons[k].tgt = [list |-> "syns", ix |-> k]
                   /\ syns[k].cell = k % n_cells
                   /\ syns[k].sec = my_cells[(k % n_cells) + 1].dend
                   /\ syns[k].loc = 5)
    /\ []((RingDone /\ pc \notin {"running", "plot", "done"} /\ n_cells >= 2) =>
             /\ Cardinality(Edges) = n_cells
             /\ \A e \in Edges : e[1] # e[2]
             /\ \A c \in 1..n_cells :
                   /\ Cardinality({e \in Edges : e[1] = c}) = 1
                   /\ Cardinality({e \in Edges : e[2] = c}) = 1
                   \* the cycle through c has length N, so it visits every cell
                   /\ CycleOfLength(Edges, c, n_cells))
    /\ [][RingDone =>
             (my_cells' = my_cells /\ syns' = syns /\ netcons' = netcons)]_vars

C2_Witness == pc = "done" /\ n_cells = NCells /\ Len(netcons) = NCells

StimDeliveries == {d \in delivered : d.conn = 0}

\* C3: exactly one connection leaves the NetStim, it ends at one synapse,
\* which is at dend(0.5) of cell 0; no other cell receives a stimulus
\* event; the stimulus emits exactly one event, at 9 ms, delivered at 10 ms.
C3_Stimulus ==
    /\ ncstim # Null =>
          /\ {nc \in AllConns : nc.srcKind = "NetStim"} = {ncstim}
          /\ ncstim.tgt = [list |-> "syn_", ix |-> 0]
          /\ syn_.sec = my_cells[1].dend
          /\ syn_.cell = 0
          /\ my_cells[1].id = 0
    /\ emitted \subseteq {9}
    /\ StimDeliveries \subseteq {[time |-> 10, conn |-> 0, cell |-> 0]}
    /\ RunOver =>
          /\ emitted = {9}
          /\ stimLeft = 0
          /\ stimNext = None
          /\ StimDeliveries = {[time |-> 10, conn |-> 0, cell |-> 0]}
          /\ \A ev \in queue : ev.conn # 0

C3_Witness ==
    /\ pc = "done"
    /\ n_cells = NCells
    /\ StimDeliveries # {}
    /\ \E d \in delivered : d.conn # 0

Phase ==
    [create_cells |-> 1,
     stim |-> 2, syn_ |-> 2, stim_params |-> 2, ncstim |-> 2, ncstim_params |-> 2,
     recording |-> 2, wire |-> 2, spike_vectors |-> 2, record |-> 2,
     finitialize |-> 3, continuerun |-> 3, running |-> 3,
     plot |-> 4, done |-> 5]

Objects == <<sections, my_cells, stim, syn_, ncstim, syns, netcons>>

\* C4: the phases follow each other in the order cells, stimulus and
\* synapses, run, plot; continuerun is called exactly once; plotting starts
\* only when the run has brought t to 100 ms; nothing is created once the
\* run has started.
C4_Phases ==
    /\ [](runs <= 1)
    /\ [](pc \in {"running", "plot", "done"} => runs = 1)
    /\ [](RunOver => t = 100)
    /\ [](plotted # <<>> => pc = "done")
    /\ [][Phase[pc'] \in {Phase[pc], Phase[pc] + 1}]_vars
    /\ [][SetupDone => (Objects' = Objects /\ nobj' = nobj)]_vars

C4_Witness == pc = "done" /\ runs = 1 /\ t = 100 /\ plotted # <<>> /\ spikes # {}

\* the times stored in spike-time vector v
TimesOf(v) == {spike_times[v][j] : j \in 1..Len(spike_times[v])}

\* C5: every spike-time vector is empty until the run starts, changes only
\* by appends while continuerun is executing, vector i holds only spike
\* times of the source cell of ring connection i (cell i), and plotting
\* leaves the vectors as they are.
C5_Recording ==
    /\ [](pc \notin {"running", "plot", "done"} =>
             \A v \in 1..Len(spike_times) : spike_times[v] = <<>>)
    /\ [](SetupDone =>
             /\ Len(spike_times) = Len(netcons)
             /\ \A v \in 1..Len(spike_times) :
                   /\ recordOf[v] = v
                   /\ netcons[v].srcSec = my_cells[v].soma
                   /\ my_cells[v].id = v - 1
                   /\ \A s \in TimesOf(v) : [cell |-> v - 1, time |-> s] \in spikes
                   /\ Cardinality(TimesOf(v)) = Len(spike_times[v]))
    /\ [][(spike_times # <<>> /\ spike_times' # spike_times) =>
             /\ pc = "running" /\ pc' = "running"
             /\ \A v \in 1..Len(spike_times) :
                   \/ spike_times'[v] = spike_times[v]
                   \/ spike_times'[v] = Append(spike_times[v], t)]_vars
    /\ [][pc = "plot" => (spike_times' = spike_times /\ plotted' # <<>>)]_vars

C5_Witness ==
    /\ pc = "done"
    /\ n_cells = NCells
    /\ \A v \in 1..Len(spike_times) : Len(spike_times[v]) >= 2
    /\ \A v \in 1..Len(plotted) : plotted[v].times = spike_times[v]

\* C6: from the start of the run to the end of the script no connection
\* changes: ncstim keeps source NetStim, target syn_, weight 0.04 uS and
\* delay 1 ms, every ring connection keeps its source, its target, weight
\* 0.05 uS and delay 5 ms.
C6_Immutable ==
    /\ [](SetupDone =>
             /\ ncstim.srcKind = "NetStim"
             /\ ncstim.tgt = [list |-> "syn_", ix |-> 0]
             /\ ncstim.weight = 4
             /\ ncstim.delay = 1
             /\ \A k \in 1..Len(netcons) :
                   /\ netcons[k].srcSec = my_cells[k].soma
                   /\ netcons[k].tgt = [list |-> "syns", ix |-> k]
                   /\ netcons[k].weight = 5
                   /\ netcons[k].delay = 5)
    /\ [][SetupDone =>
             /\ ncstim' = ncstim
             /\ netcons' = netcons
             /\ syn_' = syn_
             /\ syns' = syns]_vars

C6_Witness ==
    /\ pc = "done"
    /\ Len(netcons) = NCells
    /\ \E d \in delivered : d.conn = 0
    /\ \E d \in delivered : d.conn = NCells

SectionsOf(c) == {my_cells[c].soma, my_cells[c].dend}

\* C7: the cells built so far have ids 0, 1, ... in list order, each owns
\* one soma and one dend, its dend is attached to its own soma, no section
\* belongs to or hangs off another cell; once create_n_BallAndStick has
\* returned there are n cells and cells and sections never change again.
C7_Cells ==
    /\ [](pc # "create_cells" => Len(my_cells) = n_cells)
    /\ [](/\ Len(sections) = 2 * Len(my_cells)
          /\ \A c \in 1..Len(my_cells) :
                /\ my_cells[c].id = c - 1
                /\ my_cells[c].soma # my_cells[c].dend
                /\ SectionsOf(c) \subseteq 1..Len(sections)
                /\ sections[my_cells[c].soma].name = "soma"
                /\ sections[my_cells[c].dend].name = "dend"
                /\ sections[my_cells[c].soma].parent = None
                /\ sections[my_cells[c].dend].parent = my_cells[c].soma
                /\ my_cells[c].all = SectionsOf(c)
                /\ \A d \in 1..Len(my_cells) :
                      d # c => SectionsOf(c) \cap SectionsOf(d) = {})
    /\ [][Len(my_cells') >= Len(my_cells) /\
          SubSeq(my_cells', 1, Len(my_cells)) = my_cells]_vars
    /\ [][pc # "create_cells" =>
             (my_cells' = my_cells /\ sections' = sections)]_vars

C7_Witness == pc = "done" /\ Len(my_cells) = NCells /\ spikes # {}

Shift(g, dx, dy, dz) ==
    [sec \in DOMAIN g |->
        [k \in 1..Len(g[sec]) |->
            [x |-> g[sec][k].x + dx, y |-> g[sec][k].y + dy,
             z |-> g[sec][k].z + dz, d |-> g[sec][k].d]]]

\* C8: a call set_position(x, y, z) moves every 3D point of every section by
\* (x, y, z) - (stored position), keeps diameters and point counts, and
\* stores (x, y, z); so after any calls the geometry is the constructed one
\* shifted by (last argument - position stored by the constructor), p then
\* q equals q alone, and a repeated call changes nothing.
C8_SetPosition ==
    /\ [][ncalls' # ncalls =>
             /\ pos' = lastArg'
             /\ pts' = Shift(pts, lastArg'.x - pos.x, lastArg'.y - pos.y,
                             lastArg'.z - pos.z)
             /\ (lastArg' = pos => pts' = pts)]_vars
    /\ [](ncalls > 0 =>
             /\ pos = lastArg
             /\ pts = Shift(pts0, lastArg.x - pos0.x, lastArg.y - pos0.y,
                            lastArg.z - pos0.z))
    /\ [](ncalls > 0 =>
             /\ ThisCell = set_position([pos |-> pos0, pts |-> pts0],
                                        lastArg.x, lastArg.y, lastArg.z)
             /\ ThisCell = set_position(ThisCell, lastArg.x, lastArg.y, lastArg.z))

C8_Witness ==
    /\ ncalls = 2
    /\ lastArg # pos0
    /\ pts # pts0
    /\ pos0 # [x |-> 0, y |-> 0, z |-> 0]

C10_Terminates ==
    /\ (pc = "finitialize") ~> (pc = "done" /\ plotted # <<>>)
    /\ [](t \in 0..100)
    /\ [](RunOver => t = 100)
    /\ [](\A v \in 1..Len(spike_times) : \A s \in TimesOf(v) : s \in 0..100)

C10_Witness ==
    /\ pc = "done"
    /\ n_cells = NCells
    /\ \E ev \in queue : ev.time > 100
    /\ Len(spike_times[1]) >= 3

====
